---- MODULE Spec2Model ----
(***************************************************************************)
(* A model of the RayCraft path tracer: ray / sphere intersection, the     *)
(* scene aggregate scan and material scattering.                           *)
(*                                                                         *)
(* Numbers.  The program computes in IEEE doubles.  The model computes in  *)
(* exact extended rationals: a number is a pair <<n, d>> in lowest terms,  *)
(*   d > 0        the rational n/d                                         *)
(*   <<1, 0>>     +infinity       <<-1, 0>>   -infinity                    *)
(*   <<0, 0>>     NaN                                                      *)
(* with the IEEE rules for the special values (x/0, 0*inf, inf-inf, and    *)
(* every comparison with NaN false).  Rounding is not modelled: inputs are *)
(* drawn from sets on which every square root the code takes is exact.     *)
(***************************************************************************)
EXTENDS Integers, Sequences, FiniteSets, TLC

\* ------------------------------------------------------------------------
\* Bounds of the model
\* ------------------------------------------------------------------------
MaxObjects == 2
MaxCoord == 3
MaxDepth == 2
MaxWidth == 3
MaxPixels == 4
MaxRejects == 2

\* ------------------------------------------------------------------------
\* double arithmetic
\* ------------------------------------------------------------------------
Abs(n) == IF n < 0 THEN -n ELSE n

Sgn(n) == IF n > 0 THEN 1 ELSE IF n < 0 THEN -1 ELSE 0

\* Euclid's algorithm, as a function so that each step works on values.
GCDOf[a \in Nat, b \in Nat] == IF b = 0 THEN a ELSE GCDOf[b, a % b]

GCD(a, b) == GCDOf[a, b]

\* n/d in lowest terms with a non-negative denominator.
Q(n, d) ==
  IF d = 0 THEN <<Sgn(n), 0>>
  ELSE LET g == GCD(Abs(n), Abs(d))
       IN  <<(Sgn(d) * n) \div g, Abs(d) \div g>>

QInt(n) == <<n, 1>>
Zero == <<0, 1>>
One == <<1, 1>>
infinity == <<1, 0>>
NaN == <<0, 0>>

IsNaN(x) == x = NaN
IsFinite(x) == x[2] > 0

QNeg(x) == <<-x[1], x[2]>>

\* x * y: cross-reduced so that no intermediate product grows needlessly.
QMul(x, y) ==
  IF x[2] = 0 \/ y[2] = 0
  THEN <<Sgn(x[1]) * Sgn(y[1]), 0>>
  ELSE LET g1 == GCD(Abs(x[1]), y[2])
           g2 == GCD(Abs(y[1]), x[2])
       IN  Q((x[1] \div g1) * (y[1] \div g2), (x[2] \div g2) * (y[2] \div g1))

\* x + y over the least common denominator; inf + inf = inf, inf - inf = NaN.
QAdd(x, y) ==
  IF IsNaN(x) \/ IsNaN(y) THEN NaN
  ELSE IF x[2] = 0 /\ y[2] = 0 THEN (IF x = y THEN x ELSE NaN)
  ELSE IF x[2] = 0 THEN x
  ELSE IF y[2] = 0 THEN y
  ELSE LET g == GCD(x[2], y[2])
       IN  Q(x[1] * (y[2] \div g) + y[1] * (x[2] \div g), (x[2] \div g) * y[2])

QSub(x, y) == QAdd(x, QNeg(y))

\* 1 / x: 1/0 = +inf, 1/inf = 0.
QInv(x) == IF IsNaN(x) THEN NaN ELSE Q(x[2], x[1])

QDiv(x, y) ==
  IF IsNaN(x) \/ IsNaN(y) THEN NaN
  ELSE IF y[2] = 0 THEN (IF x[2] = 0 THEN NaN ELSE Zero)
  ELSE IF y[1] = 0 THEN <<Sgn(x[1]), 0>>
  ELSE QMul(x, Q(y[2], y[1]))

\* x < y; false when either is NaN.
QLt(x, y) ==
  IF IsNaN(x) \/ IsNaN(y) THEN FALSE
  ELSE IF x[2] = 0 \/ y[2] = 0
       THEN (IF x[2] = 0 /\ y[2] = 0 THEN x[1] < y[1]
             ELSE IF x[2] = 0 THEN x[1] < 0
             ELSE y[1] > 0)
  ELSE LET g == GCD(x[2], y[2])
       IN  x[1] * (y[2] \div g) < y[1] * (x[2] \div g)

QGt(x, y) == QLt(y, x)
QLe(x, y) == ~IsNaN(x) /\ ~IsNaN(y) /\ ~QLt(y, x)

fabs(x) == <<Abs(x[1]), x[2]>>

\* std::fmax(a, b): the larger; the other argument when one is NaN.
fmax(a, b) == IF IsNaN(a) THEN b ELSE IF IsNaN(b) THEN a ELSE IF QLt(a, b) THEN b ELSE a

\* Integer square root by bisection: the k in lo..hi with k*k <= n < (k+1)^2.
RECURSIVE ISqrtIn(_, _, _)
ISqrtIn(n, lo, hi) ==
  IF lo >= hi THEN lo
  ELSE LET mid == (lo + hi + 1) \div 2
       IN  IF mid * mid <= n THEN ISqrtIn(n, mid, hi) ELSE ISqrtIn(n, lo, mid - 1)

ISqrt(n) == ISqrtIn(n, 0, IF n < 46340 THEN n ELSE 46340)

IsSquare(n) == n >= 0 /\ ISqrt(n) * ISqrt(n) = n

\* The doubles whose square root the model takes exactly.
ExactSqrt(x) == x[2] = 0 \/ x[1] < 0 \/ (IsSquare(x[1]) /\ IsSquare(x[2]))

\* std::sqrt: NaN for a negative argument, +inf for +inf.
sqrt(x) ==
  IF IsNaN(x) \/ x[1] < 0 THEN NaN
  ELSE IF x[2] = 0 THEN x
  ELSE <<ISqrt(x[1]), ISqrt(x[2])>>

\* ------------------------------------------------------------------------
\* vec3
\* ------------------------------------------------------------------------
vec3(e0, e1, e2) == <<e0, e1, e2>>

\* vec3(): all components zero.
vec3_zero == <<Zero, Zero, Zero>>

VNeg(v) == <<QNeg(v[1]), QNeg(v[2]), QNeg(v[3])>>
VAdd(u, v) == <<QAdd(u[1], v[1]), QAdd(u[2], v[2]), QAdd(u[3], v[3])>>
VSub(u, v) == <<QSub(u[1], v[1]), QSub(u[2], v[2]), QSub(u[3], v[3])>>

\* operator*(double t, const vec3 &v)
VScale(t, v) == <<QMul(t, v[1]), QMul(t, v[2]), QMul(t, v[3])>>

\* operator/(const vec3 &v, double t): (1 / t) * v.
VMul(u, v) == vec3(QMul(u[1], v[1]), QMul(u[2], v[2]), QMul(u[3], v[3]))
VDiv(v, t) == VScale(QInv(t), v)

dot(u, v) == QAdd(QAdd(QMul(u[1], v[1]), QMul(u[2], v[2])), QMul(u[3], v[3]))

length_squared(v) == dot(v, v)

length(v) == sqrt(length_squared(v))

\* 1e-8, the tolerance of vec3::near_zero.
NearZeroTol == <<1, 100000000>>

near_zero(v) ==
  /\ QLt(fabs(v[1]), NearZeroTol)
  /\ QLt(fabs(v[2]), NearZeroTol)
  /\ QLt(fabs(v[3]), NearZeroTol)

\* A normalisation that divides whatever the length.
unit_vector_unguarded(v) == VDiv(v, length(v))

unit_vector(v) ==
  LET len == length(v)
  IN  IF len = Zero THEN vec3(Zero, Zero, Zero) ELSE VDiv(v, len)

\* The projection onto the plane of n instead of the mirror image.
reflect_projected(v, n) == VSub(v, VScale(dot(v, n), n))

reflect(v, n) == VSub(v, VScale(QMul(QInt(2), dot(v, n)), n))

\* ------------------------------------------------------------------------
\* interval, ray
\* ------------------------------------------------------------------------
interval(lo, hi) == [min |-> lo, max |-> hi]

\* A containment test that lets the bounds themselves in.
surrounds_closed(iv, x) == QLe(iv.min, x) /\ QLe(x, iv.max)

surrounds(iv, x) == QLt(iv.min, x) /\ QLt(x, iv.max)

ray(origin, direction) == [orig |-> origin, dir |-> direction]

\* A point-at-parameter that measures t from the end of the direction vector.
at_shifted(r, t) == VAdd(VAdd(r.orig, r.dir), VScale(t, r.dir))

at(r, t) == VAdd(r.orig, VScale(t, r.dir))

\* ------------------------------------------------------------------------
\* hit_record
\* ------------------------------------------------------------------------
NoMat == [kind |-> "none", albedo |-> vec3_zero, fuzz |-> Zero, refraction_index |-> Zero]

\* A default-constructed hit_record: p and normal are vec3() (zero); t,
\* front_face and mat hold no value the code ever reads before writing, and
\* are given the placeholders NaN, FALSE and NoMat.
hit_record_new ==
  [p |-> vec3_zero, normal |-> vec3_zero, t |-> NaN, front_face |-> FALSE, mat |-> NoMat]

\* An orientation step that records front_face but never flips the normal.
set_face_normal_noflip(rec, r, outward_normal) ==
  [rec EXCEPT !.front_face = QLt(dot(r.dir, outward_normal), Zero),
              !.normal = outward_normal]

set_face_normal(rec, r, outward_normal) ==
  LET ff == QLt(dot(r.dir, outward_normal), Zero)
  IN  [rec EXCEPT !.front_face = ff,
                  !.normal = IF ff THEN outward_normal ELSE VNeg(outward_normal)]

\* ------------------------------------------------------------------------
\* sphere
\* ------------------------------------------------------------------------
\* A constructor that stores the radius as given.
sphere_unclamped(center, radius, mat) ==
  [center |-> center, radius |-> radius, mat |-> mat]

\* sphere::sphere: the radius is stored as std::fmax(0, radius).
sphere(center, radius, mat) ==
  [center |-> center, radius |-> fmax(Zero, radius), mat |-> mat]

\* The quadratic of sphere::hit from oc: a, h, c and the discriminant.
sphere_coefficients(a, h, c) ==
  [a |-> a, h |-> h, c |-> c, discriminant |-> QSub(QMul(h, h), QMul(a, c))]

sphere_quadratic_oc(s, r, oc) ==
  sphere_coefficients(length_squared(r.dir), dot(r.dir, oc),
                      QSub(length_squared(oc), QMul(s.radius, s.radius)))

sphere_quadratic(s, r) == sphere_quadratic_oc(s, r, VSub(s.center, r.orig))

\* The record sphere::hit fills for an accepted root, p being r.at(root):
\* t, p, the normal (p - center) / radius oriented by set_face_normal, mat.
sphere_fill(s, r, rec, root, p) ==
  set_face_normal([rec EXCEPT !.t = root, !.p = p, !.mat = s.mat],
                  r, VDiv(VSub(p, s.center), s.radius))

\* The nearest root in the acceptable range: the smaller, else the larger,
\* else no hit (the record is left as it was).
sphere_select(s, r, ray_t, rec, root1, root2) ==
  IF surrounds(ray_t, root1)
  THEN [hit |-> TRUE, rec |-> sphere_fill(s, r, rec, root1, at(r, root1))]
  ELSE IF surrounds(ray_t, root2)
  THEN [hit |-> TRUE, rec |-> sphere_fill(s, r, rec, root2, at(r, root2))]
  ELSE [hit |-> FALSE, rec |-> rec]

sphere_solve(s, r, ray_t, rec, q, sqrtd) ==
  sphere_select(s, r, ray_t, rec,
                QDiv(QSub(q.h, sqrtd), q.a), QDiv(QAdd(q.h, sqrtd), q.a))

sphere_hit_q(s, r, ray_t, rec, q) ==
  IF QLt(q.discriminant, Zero) THEN [hit |-> FALSE, rec |-> rec]
  ELSE sphere_solve(s, r, ray_t, rec, q, sqrt(q.discriminant))

\* sphere::hit goes on to the root divisions (h - sqrtd) / a and (h + sqrtd) / a
\* unless the discriminant is negative: no other test precedes them.
sphere_hit_divides(s, r) == ~QLt(sphere_quadratic(s, r).discriminant, Zero)

\* sphere::hit: the returned flag and the record as the call leaves it.
sphere_hit(s, r, ray_t, rec) == sphere_hit_q(s, r, ray_t, rec, sphere_quadratic(s, r))

\* ------------------------------------------------------------------------
\* materials
\* ------------------------------------------------------------------------
lambertian(albedo) ==
  [kind |-> "lambertian", albedo |-> albedo, fuzz |-> Zero, refraction_index |-> Zero]

\* metal::metal: fuzz(fuzz < 1 ? fuzz : 1).
metal(albedo, fuzz) ==
  [kind |-> "metal", albedo |-> albedo, fuzz |-> IF QLt(fuzz, One) THEN fuzz ELSE One,
   refraction_index |-> Zero]

\* random_double(min, max) on the draw d of random_double().
random_double_in(lo, hi, d) == QAdd(lo, QMul(QSub(hi, lo), d))

\* vec3::random(-1, 1) on three draws.
vec3_random(d1, d2, d3) ==
  vec3(random_double_in(QInt(-1), One, d1),
       random_double_in(QInt(-1), One, d2),
       random_double_in(QInt(-1), One, d3))

\* The double 1e-160 cannot be written with the model's integers; 1e-8 stands
\* for it.  Every squared length the model draws is 0 or at least 1/16, so
\* the two thresholds reject the same samples.
RejectTol == <<1, 100000000>>

\* The test that ends the rejection loop of random_unit_vector.
random_accepts(p) ==
  LET lensq == length_squared(p)
  IN  QLt(RejectTol, lensq) /\ QLe(lensq, One)

\* random_unit_vector on the sample that ends its loop.
random_unit_vector(p) == VDiv(p, sqrt(length_squared(p)))

\* The out-parameters of scatter as the caller holds them before the call.
scatter_none == [returned |-> FALSE, attenuation |-> vec3_zero,
                 scattered |-> ray(vec3_zero, vec3_zero)]

\* A diffuse scatter that keeps the sum whatever its size.
lambertian_scatter_nofallback(m, r_in, rec, u) ==
  [returned |-> TRUE, attenuation |-> m.albedo,
   scattered |-> ray(rec.p, VAdd(rec.normal, u))]

\* lambertian::scatter on the random unit vector u.
lambertian_scatter(m, r_in, rec, u) ==
  LET sum == VAdd(rec.normal, u)
      scatter_direction == IF near_zero(sum) THEN rec.normal ELSE sum
  IN  [returned |-> TRUE, attenuation |-> m.albedo,
       scattered |-> ray(rec.p, scatter_direction)]

\* A metal scatter that also accepts a direction at right angles to the normal.
metal_scatter_nonstrict(m, r_in, rec, u) ==
  LET reflected == VAdd(unit_vector(reflect(r_in.dir, rec.normal)), VScale(m.fuzz, u))
  IN  [returned |-> QLe(Zero, dot(reflected, rec.normal)),
       attenuation |-> m.albedo, scattered |-> ray(rec.p, reflected)]

\* metal::scatter on the random unit vector u.
metal_scatter(m, r_in, rec, u) ==
  LET reflected == VAdd(unit_vector(reflect(r_in.dir, rec.normal)), VScale(m.fuzz, u))
      scattered == ray(rec.p, reflected)
  IN  [returned |-> QGt(dot(scattered.dir, rec.normal), Zero),
       attenuation |-> m.albedo, scattered |-> scattered]

\* dielectric::dielectric
dielectric(refraction_index) ==
  [kind |-> "dielectric", albedo |-> vec3_zero, fuzz |-> Zero,
   refraction_index |-> refraction_index]

\* std::fmin: the other argument when one is NaN.
fmin(a, b) == IF IsNaN(a) THEN b ELSE IF IsNaN(b) THEN a ELSE IF QLt(b, a) THEN b ELSE a

\* std::pow(x, 5)
pow5(x) == QMul(QMul(QMul(x, x), QMul(x, x)), x)

\* dielectric::reflectance, from the squared r0.
reflectance_r0(r0, cosine) == QAdd(r0, QMul(QSub(One, r0), pow5(QSub(One, cosine))))

reflectance_sq(q, cosine) == reflectance_r0(QMul(q, q), cosine)

\* dielectric::reflectance
reflectance(cosine, refraction_index) ==
  reflectance_sq(QDiv(QSub(One, refraction_index), QAdd(One, refraction_index)), cosine)

\* refract: r_out_perp
refract_perp(uv, n, etai_over_etat, cos_theta) ==
  VScale(etai_over_etat, VAdd(uv, VScale(cos_theta, n)))

\* refract: r_out_perp + r_out_parallel
refract_sum(n, r_out_perp) ==
  VAdd(r_out_perp,
       VScale(QNeg(sqrt(fabs(QSub(One, length_squared(r_out_perp))))), n))

\* refract
refract(uv, n, etai_over_etat) ==
  refract_sum(n, refract_perp(uv, n, etai_over_etat, fmin(dot(VNeg(uv), n), One)))

\* dielectric::scatter: ri
dielectric_ri(m, rec) ==
  IF rec.front_face THEN QDiv(One, m.refraction_index) ELSE m.refraction_index

\* dielectric::scatter: sin_theta
dielectric_sin(cos_theta) == sqrt(QSub(One, QMul(cos_theta, cos_theta)))

\* dielectric::scatter: the test of the if, on the draw d of random_double().
dielectric_reflects(ri, cos_theta, d) ==
  QGt(QMul(ri, dielectric_sin(cos_theta)), One) \/ QGt(reflectance(cos_theta, ri), d)

dielectric_direction(unit_direction, rec, ri, cos_theta, d) ==
  IF dielectric_reflects(ri, cos_theta, d)
  THEN reflect(unit_direction, rec.normal)
  ELSE refract(unit_direction, rec.normal, ri)

dielectric_from(unit_direction, rec, ri, d) ==
  [returned |-> TRUE, attenuation |-> vec3(One, One, One),
   scattered |-> ray(rec.p, dielectric_direction(unit_direction, rec, ri,
                                                 fmin(dot(VNeg(unit_direction), rec.normal), One), d))]

\* dielectric::scatter on the draw d of random_double().
dielectric_scatter(m, r_in, rec, d) ==
  dielectric_from(unit_vector(r_in.dir), rec, dielectric_ri(m, rec), d)

\* The square roots dielectric::scatter takes are exact.
dielectric_exact_perp(r_out_perp) ==
  ExactSqrt(fabs(QSub(One, length_squared(r_out_perp))))

dielectric_exact_cos(unit_direction, rec, ri, cos_theta) ==
  /\ ExactSqrt(QSub(One, QMul(cos_theta, cos_theta)))
  /\ dielectric_exact_perp(refract_perp(unit_direction, rec.normal, ri, cos_theta))

dielectric_exact_from(unit_direction, rec, ri) ==
  dielectric_exact_cos(unit_direction, rec, ri, fmin(dot(VNeg(unit_direction), rec.normal), One))

dielectric_exact(m, r_in, rec) ==
  /\ ExactSqrt(length_squared(r_in.dir))
  /\ dielectric_exact_from(unit_vector(r_in.dir), rec, dielectric_ri(m, rec))

\* The virtual call rec.mat->scatter(r_in, rec, attenuation, scattered).
scatter(m, r_in, rec, u) ==
  IF m.kind = "lambertian" THEN lambertian_scatter(m, r_in, rec, u)
  ELSE IF m.kind = "metal" THEN metal_scatter(m, r_in, rec, u)
  ELSE scatter_none

\* ------------------------------------------------------------------------
\* hittable_list
\* ------------------------------------------------------------------------
NoObject == [center |-> vec3_zero, radius |-> NaN, mat |-> NoMat]

\* The locals of hittable_list::hit on entry; owner is the member whose hit
\* rec holds (none yet).
scan_begin(ray_t, rec) ==
  [temp_rec |-> hit_record_new, hit_anything |-> FALSE,
   closest_so_far |-> ray_t.max, rec |-> rec, owner |-> NoObject,
   obj_hit |-> FALSE, obj_t |-> ray_t]

\* A loop body that keeps the first hit it finds and ignores every later one.
scan_accept_first(st, object, call_t, res) ==
  IF res.hit /\ ~st.hit_anything
  THEN [temp_rec |-> res.rec, hit_anything |-> TRUE,
        closest_so_far |-> res.rec.t, rec |-> res.rec, owner |-> object,
        obj_hit |-> TRUE, obj_t |-> call_t]
  ELSE [st EXCEPT !.temp_rec = res.rec, !.obj_hit = res.hit, !.obj_t = call_t]

\* A loop body that copies only t into the caller's record.
scan_accept_t_only(st, object, call_t, res) ==
  IF res.hit
  THEN [temp_rec |-> res.rec, hit_anything |-> TRUE,
        closest_so_far |-> res.rec.t, rec |-> [st.rec EXCEPT !.t = res.rec.t],
        owner |-> object, obj_hit |-> TRUE, obj_t |-> call_t]
  ELSE [st EXCEPT !.temp_rec = res.rec, !.obj_hit = FALSE, !.obj_t = call_t]

\* A loop body that records the hit and leaves the bound where it was.
scan_accept_stale_bound(st, object, call_t, res) ==
  IF res.hit
  THEN [temp_rec |-> res.rec, hit_anything |-> TRUE,
        closest_so_far |-> st.closest_so_far, rec |-> res.rec, owner |-> object,
        obj_hit |-> TRUE, obj_t |-> call_t]
  ELSE [st EXCEPT !.temp_rec = res.rec, !.obj_hit = FALSE, !.obj_t = call_t]

\* The body of the if: the member's hit becomes the closest so far.
scan_accept(st, object, call_t, res) ==
  IF res.hit
  THEN [temp_rec |-> res.rec, hit_anything |-> TRUE,
        closest_so_far |-> res.rec.t, rec |-> res.rec, owner |-> object,
        obj_hit |-> TRUE, obj_t |-> call_t]
  ELSE [st EXCEPT !.temp_rec = res.rec, !.obj_hit = FALSE, !.obj_t = call_t]

scan_call(st, object, r, call_t) ==
  scan_accept(st, object, call_t, sphere_hit(object, r, call_t, st.temp_rec))

\* A loop body that hands every member the whole interval.
scan_body_whole_interval(st, object, r, ray_t) ==
  scan_call(st, object, r, ray_t)

\* A loop body whose upper bound lies a little above the closest hit so far.
scan_body_slack(st, object, r, ray_t) ==
  scan_call(st, object, r, interval(ray_t.min, QAdd(st.closest_so_far, <<1, 1000>>)))

\* One pass of the loop body for the member object.
scan_body(st, object, r, ray_t) ==
  scan_call(st, object, r, interval(ray_t.min, st.closest_so_far))

RECURSIVE scan_from(_, _, _, _, _)
scan_from(st, objs, k, r, ray_t) ==
  IF k > Len(objs) THEN st
  ELSE scan_from(scan_body(st, objs[k], r, ray_t), objs, k + 1, r, ray_t)

\* hittable_list::hit over the whole member list.
hittable_list_hit(objs, r, ray_t, rec) == scan_from(scan_begin(ray_t, rec), objs, 1, r, ray_t)

\* ------------------------------------------------------------------------
\* Inputs
\* ------------------------------------------------------------------------
Grey == vec3(<<1, 2>>, <<1, 2>>, <<1, 2>>)
Gold == vec3(<<7, 10>>, <<3, 5>>, <<1, 2>>)

Origin3 == vec3(Zero, Zero, Zero)
Centers == {vec3(QInt(x), Zero, Zero) : x \in 0..MaxCoord}
GivenRadii == {QInt(-1), Zero, One}

\* Scenes that vary the geometry, all of one diffuse material: a unit sphere
\* at every center, and every given radius at the origin.
GeomSpheres ==
  {<<c, One, lambertian(Grey)>> : c \in Centers}
  \cup {<<Origin3, rad, lambertian(Grey)>> : rad \in GivenRadii}

\* Scenes that vary the material of a sphere at the origin.
GivenFuzz == {QInt(-1), Zero, One, QInt(2)}
Materials == {lambertian(Grey)} \cup {metal(Gold, f) : f \in GivenFuzz}
GivenIndices == {One, <<3, 2>>}
MatSpheres ==
  {<<Origin3, rad, m>> : rad \in {Zero, One}, m \in Materials}
  \cup {<<Origin3, One, dielectric(ri)>> : ri \in GivenIndices}

FarOrigin == vec3(QInt(-MaxCoord), Zero, Zero)
NearOrigin == vec3(<<-2001, 2000>>, Zero, Zero)
UnitX == vec3(One, Zero, Zero)
DiagRay == ray(vec3(QInt(-3), QInt(-4), Zero), vec3(<<3, 5>>, <<4, 5>>, Zero))

\* Rays along the x axis from far outside, from just outside the unit sphere
\* and from the origin; with unit, reversed, doubled and zero direction; a ray
\* that grazes the unit sphere and one that is not parallel to an axis.
GeomRays ==
  {ray(o, d) : o \in {FarOrigin, NearOrigin, Origin3},
               d \in {UnitX, VNeg(UnitX), VScale(QInt(2), UnitX), vec3_zero}}
  \cup {ray(vec3(QInt(-MaxCoord), One, Zero), UnitX), DiagRay}

MatRays ==
  {ray(FarOrigin, UnitX), ray(Origin3, UnitX), ray(FarOrigin, VScale(QInt(2), UnitX)),
   DiagRay, ray(vec3(QInt(-MaxCoord), <<3, 5>>, Zero), UnitX)}

\* The interval of ray_color, (0.001, +infinity), and a bounded one.
MainInterval == interval(<<1, 1000>>, infinity)
Intervals == {MainInterval, interval(QInt(MaxCoord - 1), QInt(MaxCoord + 1))}

\* main's image: widths up to MaxWidth with several aspect ratios, and the
\* 400 wide 16:9 image of main.
AspectRatios == {<<16, 9>>, One, QInt(2), <<1, 2>>}
ImageConfigs == ((1..MaxWidth) \X AspectRatios) \cup {<<400, <<16, 9>>>>}

\* Values of ray_color: black, a color inside [0, 1] and one outside it.
Palette ==
  {vec3_zero, vec3(<<1, 4>>, <<1, 2>>, One), vec3(QInt(-1), QInt(2), <<999, 1000>>)}

\* Camera rays of pixels: two that meet the unit sphere at the origin from
\* opposite sides and one that leaves it behind.
PixelRays ==
  {ray(FarOrigin, UnitX), ray(VNeg(FarOrigin), VNeg(UnitX)), ray(FarOrigin, VNeg(UnitX))}

\* Vectors with whole components up to MaxCoord - 1 in size, and their halves.
Vectors ==
  {vec3(QInt(x), QInt(y), QInt(z)) : x, y, z \in -(MaxCoord - 1)..(MaxCoord - 1)}
  \cup {vec3(<<x, 2>>, Zero, Zero) : x \in {-1, 1}}

\* Unit vectors along the axes and off them, and vectors that are not unit.
Normals ==
  {UnitX, VNeg(UnitX), vec3(Zero, One, Zero), vec3(Zero, Zero, QInt(-1)),
   vec3(<<3, 5>>, <<4, 5>>, Zero), vec3(<<-2, 3>>, <<1, 3>>, <<2, 3>>),
   vec3(QInt(2), Zero, Zero), vec3_zero}

RandomDoubles == {Zero, <<1, 4>>, <<1, 2>>, <<3, 4>>}

\* The rays whose every square root against the scene is exact.
Representable(objs, rr) ==
  \A k \in 1..Len(objs) : ExactSqrt(sphere_quadratic(objs[k], rr).discriminant)

\* ------------------------------------------------------------------------
\* color output
\* ------------------------------------------------------------------------
\* interval::clamp
clamp(iv, x) == IF QLt(x, iv.min) THEN iv.min ELSE IF QGt(x, iv.max) THEN iv.max ELSE x

\* linear_to_gamma
linear_to_gamma(linear_component) ==
  IF QGt(linear_component, Zero) THEN sqrt(linear_component) ELSE Zero

\* The conversion of a finite double to int: truncation toward zero.
int_trunc(x) == IF x[1] >= 0 THEN x[1] \div x[2] ELSE -((-x[1]) \div x[2])

IntMin == -2147483647 - 1

\* int(x) of a NaN has no defined value; builds produce INT_MIN (x86) or 0.
IntOfNaN == {IntMin, 0}

\* int(x), where ub is what the build produces when the value is undefined.
int_cast(x, ub) == IF IsFinite(x) THEN int_trunc(x) ELSE ub

\* static const interval intensity(0.000, 0.999)
intensity == interval(Zero, <<999, 1000>>)

\* A quantisation that clamps into [0, 1] instead of [0, 0.999].
color_byte_closed(x, ub) == int_cast(QMul(QInt(256), clamp(interval(Zero, One), x)), ub)

\* int(256 * intensity.clamp(x))
color_byte(x, ub) == int_cast(QMul(QInt(256), clamp(intensity, x)), ub)

\* write_color: rbyte, gbyte, bbyte
color_bytes(pixel_color, ub) ==
  <<color_byte(pixel_color[1], ub), color_byte(pixel_color[2], ub),
    color_byte(pixel_color[3], ub)>>

\* write_color: out << rbyte << ' ' << gbyte << ' ' << bbyte << '\n'
color_line(b) == ToString(b[1]) \o " " \o ToString(b[2]) \o " " \o ToString(b[3])

\* A height that is not raised to 1.
image_height_unclamped(width, ratio) == int_cast(QDiv(QInt(width), ratio), 0)

\* main: image_height
image_height_of(width, ratio) ==
  IF int_cast(QDiv(QInt(width), ratio), 0) < 1 THEN 1
  ELSE int_cast(QDiv(QInt(width), ratio), 0)

\* main: the header
header(width, height) == <<"P3", ToString(width) \o " " \o ToString(height), "255">>

\* ------------------------------------------------------------------------
\* State
\* ------------------------------------------------------------------------
VARIABLES
  objects,        \* hittable_list::objects
  arg_radius,     \* the radius argument of the sphere constructor call that
                  \* has just returned (NaN: none has)
  pc,             \* "idle", "scan" (inside hittable_list::hit), "returned", "scattered"
  r,              \* the ray being cast
  ray_t,          \* the interval given to hittable_list::hit
  idx,            \* position of the range-for over objects
  scan,           \* the locals of hittable_list::hit and the caller's rec
  rnd,            \* the value random_unit_vector() returned inside scatter
  scat,           \* the result and out-parameters of material::scatter
  draw,           \* the value random_double() returned inside dielectric::scatter
  max_depth,      \* camera::max_depth
  depth,          \* the depth argument of the current ray_color call
  throughput,     \* the product of the attenuations of the calls above it
  pixel_color,    \* the value the outermost ray_color call returned
  image_width,    \* main: image_width
  aspect_ratio,   \* main: aspect_ratio
  image_height,   \* main: image_height
  j,              \* main: the row of the render loop
  i,              \* main: the column of the render loop
  rpc,            \* main: "start", "header", "rows", "cols", "done"
  out,            \* std::cout, as the lines written so far
  clog,           \* std::clog, as the messages written so far
  shaded,         \* the pixels ray_color was evaluated for, in order of evaluation
  bytes,          \* rbyte, gbyte, bbyte of the latest write_color call
  rand_state,     \* the hidden state of std::rand
  evals,          \* two evaluations of the same pixels, in opposite orders
  call            \* the latest call of a vec3 utility: its arguments and result

scene_vars == <<objects, arg_radius, pc, r, ray_t, idx, scan, rnd, scat, draw>>
trace_vars == <<max_depth, depth, throughput, pixel_color>>
render_vars == <<image_width, aspect_ratio, image_height, j, i, rpc, out, clog, shaded, bytes>>
rand_vars == <<rand_state, evals>>
program_vars == <<scene_vars, trace_vars, render_vars, rand_vars>>

vars ==
  <<objects, arg_radius, pc, r, ray_t, idx, scan, rnd, scat, draw,
    max_depth, depth, throughput, pixel_color,
    image_width, aspect_ratio, image_height, j, i, rpc, out, clog, shaded, bytes,
    rand_state, evals, call>>

\* No vec3 utility has been called.
no_call == [op |-> "none", v |-> vec3_zero, n |-> vec3_zero, result |-> vec3_zero]

NoRay == ray(vec3_zero, vec3_zero)
White == vec3(One, One, One)

\* main's locals before the image height is computed.
InitImage(width, ratio) ==
  /\ image_width = width
  /\ aspect_ratio = ratio
  /\ image_height = 0
  /\ j = 0
  /\ i = 0
  /\ rpc = "start"
  /\ out = <<>>
  /\ clog = <<>>
  /\ shaded = <<>>
  /\ bytes = <<0, 0, 0>>

InitScene ==
  /\ call = no_call
  /\ objects = <<>>
  /\ arg_radius = NaN
  /\ pc = "idle"
  /\ r = NoRay
  /\ ray_t = MainInterval
  /\ idx = 1
  /\ scan = scan_begin(MainInterval, hit_record_new)
  /\ rnd = vec3_zero
  /\ scat = scatter_none
  /\ draw = Zero
  /\ max_depth = 0
  /\ depth = 0
  /\ throughput = White
  /\ pixel_color = vec3_zero

\* Two evaluations of the pixels 1 and 2 of one image by one program started
\* from the same std::rand state: the first in the order 1, 2 and the second
\* in the order 2, 1.  rays[k] is the camera ray of pixel k and colors[e][k]
\* the color evaluation e computed for pixel k.
PixelOrders == <<(<<1, 2>>), (<<2, 1>>)>>

evals_begin(seed, rays) ==
  [seed |-> seed, rays |-> rays, pass |-> 1, turn |-> 1,
   colors |-> <<(<<vec3_zero, vec3_zero>>), (<<vec3_zero, vec3_zero>>)>>]

\* No pixel has been evaluated; std::rand is in its first state.
InitRand(rays) ==
  /\ rand_state = 1
  /\ evals = evals_begin(1, rays)

Init == InitScene /\ InitImage(400, <<16, 9>>) /\ InitRand(<<NoRay, NoRay>>)

\* world.add(make_shared<sphere>(center, radius, mat))
Add(center, radius, mat) ==
  /\ pc = "idle"
  /\ Len(objects) < MaxObjects
  /\ objects' = Append(objects, sphere(center, radius, mat))
  /\ arg_radius' = radius
  /\ UNCHANGED <<pc, r, ray_t, idx, scan, rnd, scat, draw>>
  /\ UNCHANGED render_vars
  /\ UNCHANGED trace_vars
  /\ UNCHANGED rand_vars
  /\ UNCHANGED call

\* hittable_list::clear
Clear ==
  /\ pc = "idle"
  /\ objects # <<>>
  /\ objects' = <<>>
  /\ arg_radius' = NaN
  /\ UNCHANGED <<pc, r, ray_t, idx, scan, rnd, scat, draw>>
  /\ UNCHANGED render_vars
  /\ UNCHANGED trace_vars
  /\ UNCHANGED rand_vars
  /\ UNCHANGED call

\* Entry of world.hit(r, ray_t, rec) with a fresh record of the caller.
HitBegin(rr, iv) ==
  /\ pc = "idle"
  /\ Representable(objects, rr)
  /\ pc' = "scan"
  /\ r' = rr
  /\ ray_t' = iv
  /\ idx' = 1
  /\ scan' = scan_begin(iv, hit_record_new)
  /\ arg_radius' = NaN
  /\ UNCHANGED <<objects, rnd, scat, draw>>
  /\ UNCHANGED render_vars
  /\ UNCHANGED trace_vars
  /\ UNCHANGED rand_vars
  /\ UNCHANGED call

\* One iteration of the loop over objects.
HitStep ==
  /\ pc = "scan"
  /\ idx <= Len(objects)
  /\ scan' = scan_body(scan, objects[idx], r, ray_t)
  /\ idx' = idx + 1
  /\ UNCHANGED <<objects, arg_radius, pc, r, ray_t, rnd, scat, draw>>
  /\ UNCHANGED render_vars
  /\ UNCHANGED trace_vars
  /\ UNCHANGED rand_vars
  /\ UNCHANGED call

\* return hit_anything
HitReturn ==
  /\ pc = "scan"
  /\ idx > Len(objects)
  /\ pc' = "returned"
  /\ UNCHANGED <<objects, arg_radius, r, ray_t, idx, scan, rnd, scat, draw>>
  /\ UNCHANGED render_vars
  /\ UNCHANGED trace_vars
  /\ UNCHANGED rand_vars
  /\ UNCHANGED call

\* rec.mat->scatter(r, rec, attenuation, scattered) after a hit, on the three
\* draws of the sample that ends random_unit_vector's loop.
Scatter(d1, d2, d3) ==
  /\ pc = "returned"
  /\ scan.hit_anything
  /\ scan.rec.mat.kind # "dielectric"
  /\ random_accepts(vec3_random(d1, d2, d3))
  /\ ExactSqrt(length_squared(vec3_random(d1, d2, d3)))
  /\ ExactSqrt(length_squared(reflect(r.dir, scan.rec.normal)))
  /\ rnd' = random_unit_vector(vec3_random(d1, d2, d3))
  /\ scat' = scatter(scan.rec.mat, r, scan.rec, rnd')
  /\ pc' = "scattered"
  /\ UNCHANGED <<objects, arg_radius, r, ray_t, idx, scan, draw>>
  /\ UNCHANGED render_vars
  /\ UNCHANGED trace_vars
  /\ UNCHANGED rand_vars
  /\ UNCHANGED call

\* rec.mat->scatter(r, rec, attenuation, scattered) after a hit on a
\* dielectric, on the draw d of random_double().
ScatterGlass(d) ==
  /\ pc = "returned"
  /\ scan.hit_anything
  /\ scan.rec.mat.kind = "dielectric"
  /\ dielectric_exact(scan.rec.mat, r, scan.rec)
  /\ draw' = d
  /\ scat' = dielectric_scatter(scan.rec.mat, r, scan.rec, d)
  /\ pc' = "scattered"
  /\ UNCHANGED <<objects, arg_radius, r, ray_t, idx, scan, rnd>>
  /\ UNCHANGED render_vars
  /\ UNCHANGED trace_vars
  /\ UNCHANGED rand_vars
  /\ UNCHANGED call

\* The cast is over: the caller's frame is left and the next ray may start.
Finish ==
  /\ pc \in {"returned", "scattered", "written"}
  /\ pc' = "idle"
  /\ r' = NoRay
  /\ ray_t' = MainInterval
  /\ idx' = 1
  /\ scan' = scan_begin(MainInterval, hit_record_new)
  /\ rnd' = vec3_zero
  /\ scat' = scatter_none
  /\ draw' = Zero
  /\ pixel_color' = vec3_zero
  /\ bytes' = <<0, 0, 0>>
  /\ out' = <<>>
  /\ UNCHANGED <<objects, arg_radius, max_depth, depth, throughput>>
  /\ UNCHANGED <<image_width, aspect_ratio, image_height, j, i, rpc, clog, shaded>>
  /\ UNCHANGED rand_vars
  /\ UNCHANGED call

\* ------------------------------------------------------------------------
\* The integrator ray_color(r, depth, world)
\* ------------------------------------------------------------------------
\* A depth test that lets a call with depth 0 go on to the scene.
ray_color_exhausted_below(d) == d < 0

\* if (depth <= 0) return color(0, 0, 0)
ray_color_exhausted(d) == d <= 0

\* The blend of white and sky blue by a.
background_blend(a) ==
  VAdd(VScale(QSub(One, a), White), VScale(a, vec3(<<1, 2>>, <<7, 10>>, One)))

\* The background gradient on the y component of the unit direction.
background(rr) == background_blend(QMul(<<1, 2>>, QAdd(unit_vector(rr.dir)[2], One)))

\* cam.render: ray_color(r, max_depth, world) for one camera ray.
TraceBegin(rr, d) ==
  /\ pc = "idle"
  /\ max_depth' = d
  /\ depth' = d
  /\ throughput' = White
  /\ r' = rr
  /\ pc' = "enter"
  /\ arg_radius' = NaN
  /\ UNCHANGED <<objects, ray_t, idx, scan, rnd, scat, draw, pixel_color>>
  /\ UNCHANGED render_vars
  /\ UNCHANGED rand_vars
  /\ UNCHANGED call

\* The depth budget is exhausted: black, times the attenuations above.
TraceExhausted ==
  /\ pc = "enter"
  /\ ray_color_exhausted(depth)
  /\ pixel_color' = VMul(throughput, vec3_zero)
  /\ pc' = "colored"
  /\ UNCHANGED <<objects, arg_radius, r, ray_t, idx, scan, rnd, scat, draw,
                 max_depth, depth, throughput>>
  /\ UNCHANGED render_vars
  /\ UNCHANGED rand_vars
  /\ UNCHANGED call

\* world.hit(r, interval(0.001, infinity), rec)
TraceCast ==
  /\ pc = "enter"
  /\ ~ray_color_exhausted(depth)
  /\ Representable(objects, r)
  /\ pc' = "scan"
  /\ ray_t' = MainInterval
  /\ idx' = 1
  /\ scan' = scan_begin(MainInterval, hit_record_new)
  /\ UNCHANGED <<objects, arg_radius, r, rnd, scat, draw, trace_vars>>
  /\ UNCHANGED render_vars
  /\ UNCHANGED rand_vars
  /\ UNCHANGED call

\* No surface was hit: the background.
TraceMiss ==
  /\ pc = "returned"
  /\ depth > 0
  /\ ~scan.hit_anything
  /\ ExactSqrt(length_squared(r.dir))
  /\ pixel_color' = VMul(throughput, background(r))
  /\ pc' = "colored"
  /\ UNCHANGED <<objects, arg_radius, r, ray_t, idx, scan, rnd, scat, draw,
                 max_depth, depth, throughput>>
  /\ UNCHANGED render_vars
  /\ UNCHANGED rand_vars
  /\ UNCHANGED call

\* The material did not scatter: black.
TraceAbsorb ==
  /\ pc = "scattered"
  /\ depth > 0
  /\ ~scat.returned
  /\ pixel_color' = VMul(throughput, vec3_zero)
  /\ pc' = "colored"
  /\ UNCHANGED <<objects, arg_radius, r, ray_t, idx, scan, rnd, scat, draw,
                 max_depth, depth, throughput>>
  /\ UNCHANGED render_vars
  /\ UNCHANGED rand_vars
  /\ UNCHANGED call

\* return attenuation * ray_color(scattered, depth - 1, world)
TraceBounce ==
  /\ pc = "scattered"
  /\ depth > 0
  /\ scat.returned
  /\ throughput' = VMul(throughput, scat.attenuation)
  /\ r' = scat.scattered
  /\ depth' = depth - 1
  /\ pc' = "enter"
  /\ UNCHANGED <<objects, arg_radius, ray_t, idx, scan, rnd, scat, draw,
                 max_depth, pixel_color>>
  /\ UNCHANGED render_vars
  /\ UNCHANGED rand_vars
  /\ UNCHANGED call

\* The pixel is done: the next camera ray may start.
TraceFinish ==
  /\ pc = "colored"
  /\ pc' = "idle"
  /\ r' = NoRay
  /\ ray_t' = MainInterval
  /\ idx' = 1
  /\ scan' = scan_begin(MainInterval, hit_record_new)
  /\ rnd' = vec3_zero
  /\ scat' = scatter_none
  /\ draw' = Zero
  /\ max_depth' = 0
  /\ depth' = 0
  /\ throughput' = White
  /\ pixel_color' = vec3_zero
  /\ UNCHANGED <<objects, arg_radius>>
  /\ UNCHANGED render_vars
  /\ UNCHANGED rand_vars
  /\ UNCHANGED call

\* ------------------------------------------------------------------------
\* Calls of the vec3 utilities
\* ------------------------------------------------------------------------
\* unit_vector(v), for a v whose length is taken exactly.
UnitVector(v) ==
  /\ call = no_call
  /\ ExactSqrt(length_squared(v))
  /\ call' = [op |-> "unit_vector", v |-> v, n |-> vec3_zero, result |-> unit_vector(v)]
  /\ UNCHANGED program_vars

\* reflect(v, n)
Reflect(v, n) ==
  /\ call = no_call
  /\ call' = [op |-> "reflect", v |-> v, n |-> n, result |-> reflect(v, n)]
  /\ UNCHANGED program_vars

\* The caller has used the result.
CallReturn ==
  /\ call # no_call
  /\ call' = no_call
  /\ UNCHANGED program_vars

\* ------------------------------------------------------------------------
\* random_double and the color of a pixel
\* ------------------------------------------------------------------------
\* The values std::rand() / (RAND_MAX + 1.0) takes over one period of the
\* generator; the hidden state of std::rand is the position in the period.
RandStream ==
  <<(<<49, 50>>), (<<49, 50>>), (<<49, 50>>),
    (<<16, 25>>), (<<49, 50>>), (<<1, 2>>),
    (<<9, 25>>), (<<49, 50>>), (<<1, 2>>)>>

RandStates == 1..Len(RandStream)

\* std::rand: the state after one call.
rand_next(st) == (st % Len(RandStream)) + 1

\* random_double(): the value returned and the state std::rand is left in.
random_double(st) == [value |-> RandStream[st], state |-> rand_next(st)]

\* vec3::random(-1, 1): three calls of random_double, from the state st.
vec3_random_from(st) ==
  [p |-> vec3_random(random_double(st).value,
                     random_double(random_double(st).state).value,
                     random_double(random_double(random_double(st).state).state).value),
   state |-> random_double(random_double(random_double(st).state).state).state]

\* The loop of random_unit_vector from the state st: the sample that ends it and
\* the state then; ended is FALSE when the loop runs for more than n rounds.
random_sample[st \in RandStates, n \in 0..MaxRejects] ==
  IF random_accepts(vec3_random_from(st).p)
  THEN [ended |-> TRUE, p |-> vec3_random_from(st).p, state |-> vec3_random_from(st).state]
  ELSE IF n = 0 THEN [ended |-> FALSE, p |-> vec3_zero, state |-> st]
  ELSE random_sample[vec3_random_from(st).state, n - 1]

\* A color and the state std::rand is in once it is computed; exact is FALSE
\* when a square root on the way could not be taken exactly.
shaded_as(c, st, exact) == [color |-> c, state |-> st, exact |-> exact]

\* ray_color(scattered, 1, world) after the first scatter sc: a second hit
\* scatters once more (one more sample) into the exhausted depth, which is
\* black; a miss is the background.
ray_color_second(objs, sc, h, st) ==
  IF h.hit_anything
  THEN shaded_as(vec3_zero, random_sample[st, MaxRejects].state,
                 random_sample[st, MaxRejects].ended)
  ELSE shaded_as(VMul(sc.attenuation, background(sc.scattered)), st,
                 ExactSqrt(length_squared(sc.scattered.dir)))

\* ray_color after the first scatter sc, the state being st.
ray_color_scattered(objs, sc, st) ==
  IF ~sc.returned THEN shaded_as(vec3_zero, st, TRUE)
  ELSE IF ~Representable(objs, sc.scattered) THEN shaded_as(vec3_zero, st, FALSE)
  ELSE ray_color_second(objs, sc,
         hittable_list_hit(objs, sc.scattered, MainInterval, hit_record_new), st)

\* ray_color on the first hit h: the material scatters on the sample smp.
ray_color_hit(objs, rr, h, smp) ==
  IF ~(smp.ended /\ ExactSqrt(length_squared(smp.p))
       /\ ExactSqrt(length_squared(reflect(rr.dir, h.rec.normal))))
  THEN shaded_as(vec3_zero, smp.state, FALSE)
  ELSE ray_color_scattered(objs,
         scatter(h.rec.mat, rr, h.rec, random_unit_vector(smp.p)), smp.state)

\* ray_color(rr, 2, world) from the state st of std::rand.
ray_color_first(objs, rr, h, st) ==
  IF h.hit_anything THEN ray_color_hit(objs, rr, h, random_sample[st, MaxRejects])
  ELSE shaded_as(background(rr), st, ExactSqrt(length_squared(rr.dir)))

\* The color of the pixel whose camera ray is rr, and the state of std::rand
\* afterwards.
pixel_eval(objs, rr, st) ==
  IF ~Representable(objs, rr) THEN shaded_as(vec3_zero, st, FALSE)
  ELSE ray_color_first(objs, rr,
         hittable_list_hit(objs, rr, MainInterval, hit_record_new), st)

\* The pixel the evaluation in progress evaluates next.
PixelDue == PixelOrders[evals.pass][evals.turn]

\* The result of the evaluation step in progress.
PixelResult == pixel_eval(objects, evals.rays[PixelDue], rand_state)

\* The next pixel of the evaluation in progress is evaluated: its color is
\* stored and std::rand is left where the pixel's draws ended.
EvalPixel ==
  /\ evals.turn <= 2
  /\ PixelResult.exact
  /\ evals' = [evals EXCEPT !.colors[evals.pass][PixelDue] = PixelResult.color,
                            !.turn = evals.turn + 1]
  /\ rand_state' = PixelResult.state
  /\ UNCHANGED <<scene_vars, trace_vars, render_vars, call>>

\* The first evaluation is over: the program runs again from the same state
\* of std::rand and takes the pixels in the opposite order.
EvalAgain ==
  /\ evals.pass = 1
  /\ evals.turn > 2
  /\ evals' = [evals EXCEPT !.pass = 2, !.turn = 1]
  /\ rand_state' = evals.seed
  /\ UNCHANGED <<scene_vars, trace_vars, render_vars, call>>

\* ------------------------------------------------------------------------
\* One pixel of main's loop body: ray_color(r, world) and write_color
\* ------------------------------------------------------------------------
\* ray_color: 0.5 * (rec.normal + color(1, 1, 1)) on a hit, else the background.
ray_color(rr, hit_anything, rec) ==
  IF hit_anything THEN VScale(<<1, 2>>, VAdd(rec.normal, White)) ELSE background(rr)

\* color pixel_color = ray_color(r, world), after world.hit has returned.
Shade ==
  /\ pc = "returned"
  /\ ray_t = MainInterval
  /\ scan.hit_anything \/ ExactSqrt(length_squared(r.dir))
  /\ pixel_color' = ray_color(r, scan.hit_anything, scan.rec)
  /\ pc' = "shaded"
  /\ UNCHANGED <<objects, arg_radius, r, ray_t, idx, scan, rnd, scat, draw>>
  /\ UNCHANGED <<max_depth, depth, throughput>>
  /\ UNCHANGED render_vars
  /\ UNCHANGED rand_vars
  /\ UNCHANGED call

\* write_color(std::cout, pixel_color)
WriteColor(ub) ==
  /\ pc = "shaded"
  /\ bytes' = color_bytes(pixel_color, ub)
  /\ out' = Append(out, color_line(bytes'))
  /\ pc' = "written"
  /\ UNCHANGED <<objects, arg_radius, r, ray_t, idx, scan, rnd, scat, draw>>
  /\ UNCHANGED trace_vars
  /\ UNCHANGED <<image_width, aspect_ratio, image_height, j, i, rpc, clog, shaded>>
  /\ UNCHANGED rand_vars
  /\ UNCHANGED call

\* ------------------------------------------------------------------------
\* main: the image and the render loop
\* ------------------------------------------------------------------------
\* The images whose every pixel the model renders.
Renderable == image_width * image_height <= MaxPixels

\* int image_height = int(image_width / aspect_ratio), at least 1
ComputeHeight ==
  /\ rpc = "start"
  /\ image_height' = image_height_of(image_width, aspect_ratio)
  /\ rpc' = "header"
  /\ UNCHANGED <<scene_vars, trace_vars>>
  /\ UNCHANGED <<image_width, aspect_ratio, j, i, out, clog, shaded, bytes>>
  /\ UNCHANGED rand_vars
  /\ UNCHANGED call

\* std::cout << "P3\n" << image_width << " " << image_height << "\n255\n"
WriteHeader ==
  /\ rpc = "header"
  /\ out' = out \o header(image_width, image_height)
  /\ j' = 0
  /\ rpc' = "rows"
  /\ UNCHANGED <<scene_vars, trace_vars>>
  /\ UNCHANGED <<image_width, aspect_ratio, image_height, i, clog, shaded, bytes>>
  /\ UNCHANGED rand_vars
  /\ UNCHANGED call

\* A row starts: the progress message, and the column loop from 0.
RowBegin ==
  /\ rpc = "rows"
  /\ j < image_height
  /\ Renderable
  /\ clog' = Append(clog, "\rScanlines remaining: " \o ToString(image_height - j) \o " ")
  /\ i' = 0
  /\ rpc' = "cols"
  /\ UNCHANGED <<scene_vars, trace_vars>>
  /\ UNCHANGED <<image_width, aspect_ratio, image_height, j, out, shaded, bytes>>
  /\ UNCHANGED rand_vars
  /\ UNCHANGED call

\* A column step that moves on without writing every other pixel.
PixelStep_skipping(c, ub) ==
  /\ rpc = "cols"
  /\ i < image_width
  /\ pixel_color' = c
  /\ bytes' = color_bytes(c, ub)
  /\ out' = IF i % 2 = 1 THEN out ELSE Append(out, color_line(bytes'))
  /\ shaded' = Append(shaded, [row |-> j, col |-> i, color |-> c])
  /\ i' = i + 1
  /\ UNCHANGED <<scene_vars, max_depth, depth, throughput>>
  /\ UNCHANGED <<image_width, aspect_ratio, image_height, j, rpc, clog>>
  /\ UNCHANGED rand_vars
  /\ UNCHANGED call

\* The loop body for pixel (i, j): ray_color gives the color c, write_color
\* writes it.
PixelStep(c, ub) ==
  /\ rpc = "cols"
  /\ i < image_width
  /\ pixel_color' = c
  /\ bytes' = color_bytes(c, ub)
  /\ out' = Append(out, color_line(bytes'))
  /\ shaded' = Append(shaded, [row |-> j, col |-> i, color |-> c])
  /\ i' = i + 1
  /\ UNCHANGED <<scene_vars, max_depth, depth, throughput>>
  /\ UNCHANGED <<image_width, aspect_ratio, image_height, j, rpc, clog>>
  /\ UNCHANGED rand_vars
  /\ UNCHANGED call

\* The column loop is over: the next row.
RowEnd ==
  /\ rpc = "cols"
  /\ i >= image_width
  /\ j' = j + 1
  /\ rpc' = "rows"
  /\ UNCHANGED <<scene_vars, trace_vars>>
  /\ UNCHANGED <<image_width, aspect_ratio, image_height, i, out, clog, shaded, bytes>>
  /\ UNCHANGED rand_vars
  /\ UNCHANGED call

\* The row loop is over.
RenderDone ==
  /\ rpc = "rows"
  /\ j >= image_height
  /\ clog' = Append(clog, "\rDone.                 \n")
  /\ rpc' = "done"
  /\ UNCHANGED <<scene_vars, trace_vars>>
  /\ UNCHANGED <<image_width, aspect_ratio, image_height, j, i, out, shaded, bytes>>
  /\ UNCHANGED rand_vars
  /\ UNCHANGED call

AddGeom == \E a \in GeomSpheres : Add(a[1], a[2], a[3])
AddMat == \E a \in MatSpheres : Add(a[1], a[2], a[3])
AddTraced == \E a \in {b \in MatSpheres : b[2] = One} : Add(a[1], a[2], a[3])
CastGeom == \E rr \in GeomRays, iv \in Intervals : HitBegin(rr, iv)
CastMat == \E rr \in MatRays : HitBegin(rr, MainInterval)
ScatterAny == \E d1 \in RandomDoubles, d2 \in RandomDoubles, d3 \in RandomDoubles : Scatter(d1, d2, d3)
ScatterGlassAny == \E d \in RandomDoubles : ScatterGlass(d)

TraceAny == \E rr \in MatRays, d \in 0..MaxDepth : TraceBegin(rr, d)

WritePixel == \E ub \in IntOfNaN : WriteColor(ub)
RenderPixel == \E c \in Palette, ub \in IntOfNaN : PixelStep(c, ub)

\* Scenes of varied geometry under varied rays and intervals; a ray cast over
\* (0.001, infinity) is shaded and written as a pixel.
Next ==
  AddGeom \/ Clear \/ CastGeom \/ HitStep \/ HitReturn \/ Shade \/ WritePixel \/ Finish

Spec == Init /\ [][Next]_vars

\* Scenes of varied material, with the scatter that follows a hit.
NextScatter ==
  AddMat \/ Clear \/ CastMat \/ HitStep \/ HitReturn \/ ScatterAny \/ ScatterGlassAny \/ Finish

SpecScatter == Init /\ [][NextScatter]_vars

\* Camera rays followed through the scene until the integrator returns.
NextTrace ==
  \/ AddTraced \/ Clear \/ TraceAny \/ TraceExhausted \/ TraceCast \/ HitStep \/ HitReturn
  \/ ScatterAny \/ ScatterGlassAny \/ TraceMiss \/ TraceAbsorb \/ TraceBounce
  \/ TraceFinish

SpecTrace == Init /\ [][NextTrace]_vars

\* Two pixels evaluated in both orders over one sphere, from varied states of
\* std::rand.
InitShared ==
  /\ InitScene
  /\ InitImage(2, QInt(2))
  /\ \E seed \in RandStates, r1 \in PixelRays, r2 \in PixelRays :
       /\ r1 # r2
       /\ rand_state = seed
       /\ evals = evals_begin(seed, <<r1, r2>>)

AddDiffuse == \E albedo \in {Grey, Gold} :
  /\ evals.pass = 1 /\ evals.turn = 1
  /\ Add(Origin3, One, lambertian(albedo))

NextShared == AddDiffuse \/ EvalPixel \/ EvalAgain

SpecShared == InitShared /\ [][NextShared]_vars

\* The vec3 utilities on varied vectors.
UnitVectorAny == \E v \in Vectors : UnitVector(v)
ReflectAny == \E v \in Vectors, n \in Normals : Reflect(v, n)

NextVec == UnitVectorAny \/ ReflectAny \/ CallReturn

SpecVec == Init /\ [][NextVec]_vars

\* main, for images of varied width and aspect ratio.
InitRender ==
  /\ InitScene
  /\ \E cfg \in ImageConfigs : InitImage(cfg[1], cfg[2])
  /\ InitRand(<<NoRay, NoRay>>)

NextRender ==
  ComputeHeight \/ WriteHeader \/ RowBegin \/ RenderPixel \/ RowEnd \/ RenderDone

\* The loop is a sequential program: it takes its next step whenever it has one.
SpecRender == InitRender /\ [][NextRender]_vars /\ WF_vars(NextRender)

\* ------------------------------------------------------------------------
\* Properties
\* ------------------------------------------------------------------------
\* max(0, x), written out.
ClampedAtZero(x) == IF QLt(x, Zero) THEN Zero ELSE x

RadiusAsConstructed ==
  /\ \A k \in 1..Len(objects) : QLe(Zero, objects[k].radius)
  /\ ~IsNaN(arg_radius) =>
       objects[Len(objects)].radius = ClampedAtZero(arg_radius)

RadiusKept ==
  \A k \in 1..Len(objects) :
    k <= Len(objects') => objects'[k].radius = objects[k].radius

\* C7: the radius a sphere stores is max(0, given radius): a negative radius
\* is stored as 0 and the constructor still returns, a non-negative one is
\* stored unchanged; no later step changes a stored radius, so every stored
\* radius is non-negative in every reachable state.
C7_RadiusClamped == [](RadiusAsConstructed) /\ [][RadiusKept]_vars

C7_NegativeRadiusStoredAsZero ==
  /\ pc = "idle"
  /\ QLt(arg_radius, Zero)
  /\ Len(objects) > 0
  /\ objects[Len(objects)].radius = Zero

\* C8: the fuzz a metal stores lies in [0, 1] whatever value was passed in.
C8_FuzzInUnitRange ==
  \A k \in 1..Len(objects) :
    objects[k].mat.kind = "metal" =>
      QLe(Zero, objects[k].mat.fuzz) /\ QLe(objects[k].mat.fuzz, One)

\* ------------------------------------------------------------------------
\* The member call object->hit(r, interval(ray_t.min, closest_so_far), temp_rec)
\* that the latest loop iteration made
\* ------------------------------------------------------------------------
Called == pc = "scan" /\ idx > 1
Member == objects[idx - 1]
MemberQ == sphere_quadratic(Member, r)
RootMinus(q) == QDiv(QSub(q.h, sqrt(q.discriminant)), q.a)
RootPlus(q) == QDiv(QAdd(q.h, sqrt(q.discriminant)), q.a)
SmallRoot == RootMinus(MemberQ)
LargeRoot == RootPlus(MemberQ)
StrictlyInside(iv, x) == QLt(iv.min, x) /\ QLt(x, iv.max) /\ x # iv.min /\ x # iv.max
HitT == scan.temp_rec.t
HitP == scan.temp_rec.p
HitNormal == scan.temp_rec.normal

\* |x - center|^2 = radius^2
OnSphere(s, x) == length_squared(VSub(x, s.center)) = QMul(s.radius, s.radius)

RootSelected(negative, small_in, large_in, small, large) ==
  /\ negative => ~scan.obj_hit
  /\ (~negative /\ small_in) => scan.obj_hit /\ HitT = small
  /\ (~negative /\ ~small_in /\ large_in) => scan.obj_hit /\ HitT = large
  /\ (~small_in /\ ~large_in) => ~scan.obj_hit
  /\ scan.obj_hit =>
       /\ StrictlyInside(scan.obj_t, HitT)
       /\ OnSphere(Member, at(r, HitT))

RootSelectedOf(q, small, large) ==
  RootSelected(QLt(q.discriminant, Zero), StrictlyInside(scan.obj_t, small),
               StrictlyInside(scan.obj_t, large), small, large)

RootSelectedFor(q) == RootSelectedOf(q, RootMinus(q), RootPlus(q))

\* C3: sphere::hit reports no hit on a negative discriminant; otherwise the
\* smaller root (h - sqrt(d))/a when it lies strictly inside the interval it
\* was given, else the larger root (h + sqrt(d))/a when that one does, else no
\* hit.  A reported t is strictly between the bounds (a root equal to a bound
\* is rejected) and the point at t lies on the sphere.
C3_RootSelection == Called => RootSelectedFor(MemberQ)

\* The larger root is reported because the smaller one equals the lower bound.
C3_LargerRootAfterBoundaryRoot ==
  /\ Called
  /\ scan.obj_hit
  /\ HitT = LargeRoot
  /\ SmallRoot # LargeRoot
  /\ SmallRoot = scan.obj_t.min

\* The unflipped outward normal (point - center) / radius.
Outward == VDiv(VSub(HitP, Member.center), Member.radius)

FrontFaceAsClaimed ==
  scan.temp_rec.front_face <=> QLt(dot(Outward, r.dir), Zero)

\* C4 as stated, read on the spheres of positive stored radius: on every
\* reported hit the recorded normal has a negative dot product with the ray
\* direction, and front_face tells whether the unflipped normal had one.
C4_NormalOpposesRay_Original ==
  (Called /\ scan.obj_hit /\ QGt(Member.radius, Zero)) =>
    /\ QLt(dot(HitNormal, r.dir), Zero)
    /\ FrontFaceAsClaimed

NeverAlong(d, disc) ==
  /\ ~QGt(d, Zero)
  /\ (QGt(Member.radius, Zero) /\ QGt(disc, Zero)) => QLt(d, Zero)
  /\ (QGt(Member.radius, Zero) /\ disc = Zero) => d = Zero
  /\ FrontFaceAsClaimed

\* C4 (amended): on every reported hit the recorded normal never has a
\* positive dot product with the ray direction; the product is negative when
\* the ray crosses a sphere of positive stored radius (positive discriminant,
\* the origin inside the sphere included) and zero when the ray only grazes
\* it; front_face is true exactly when the unflipped normal
\* (point - center) / radius has a negative dot product with the direction.
C4_NormalNeverAlongRay ==
  (Called /\ scan.obj_hit) => NeverAlong(dot(HitNormal, r.dir), MemberQ.discriminant)

\* A ray that starts inside a sphere leaves it: the normal was flipped.
C4_HitFromInside ==
  /\ Called
  /\ scan.obj_hit
  /\ QLt(length_squared(VSub(r.orig, Member.center)), QMul(Member.radius, Member.radius))
  /\ ~scan.temp_rec.front_face
  /\ HitNormal = VNeg(Outward)
  /\ QLt(dot(HitNormal, r.dir), Zero)

\* A unit-direction ray from outside the member, aimed straight at its
\* center, cast over (0.001, +infinity); Dist is its distance to the center.
Dist == sqrt(length_squared(VSub(Member.center, r.orig)))

AimedFrom(dist) ==
  /\ QGt(dist, Member.radius)
  /\ length_squared(r.dir) = One
  /\ VScale(dist, r.dir) = VSub(Member.center, r.orig)

AimedAtCenter ==
  /\ Called
  /\ scan.obj_t = MainInterval
  /\ ExactSqrt(length_squared(VSub(Member.center, r.orig)))
  /\ AimedFrom(Dist)

NearOrFar(near, far) ==
  /\ QGt(near, MainInterval.min)
       => scan.obj_hit /\ HitT = near /\ OnSphere(Member, HitP)
  /\ (~QGt(near, MainInterval.min) /\ QGt(far, MainInterval.min))
       => scan.obj_hit /\ HitT = far /\ OnSphere(Member, HitP)

NearOrFarAt(dist) == NearOrFar(QSub(dist, Member.radius), QAdd(dist, Member.radius))

C6_NormalIsUnit ==
  (Called /\ scan.obj_hit) => length_squared(HitNormal) = One

\* ------------------------------------------------------------------------
\* The result of hittable_list::hit
\* ------------------------------------------------------------------------
Returned == pc = "returned"

\* What member k reports when asked alone over the whole interval ray_t.
Alone(k) == sphere_hit(objects[k], r, ray_t, hit_record_new)
Hitters == {k \in 1..Len(objects) : Alone(k).hit}

NearestOf(alone, hitters) ==
  /\ scan.hit_anything <=> hitters # {}
  /\ scan.hit_anything =>
       /\ StrictlyInside(ray_t, scan.rec.t)
       /\ \E k \in hitters : alone[k].rec.t = scan.rec.t
       /\ \A k \in hitters : QLe(scan.rec.t, alone[k].rec.t)

NearestAmong(alone) == NearestOf(alone, {k \in DOMAIN alone : alone[k].hit})

Orders ==
  {f \in [1..Len(objects) -> 1..Len(objects)] :
     \A a, b \in 1..Len(objects) : f[a] = f[b] => a = b}
Reordered(f) == [k \in 1..Len(objects) |-> objects[f[k]]]
ResultOf(f) == hittable_list_hit(Reordered(f), r, ray_t, hit_record_new)

CenterGapSq(m, n) == length_squared(VSub(objects[m].center, objects[n].center))
RadiusSumSq(m, n) ==
  QMul(QAdd(objects[m].radius, objects[n].radius), QAdd(objects[m].radius, objects[n].radius))

\* No two members share an interior point (they may touch).
NonOverlapping ==
  \A m, n \in 1..Len(objects) : m < n => QLe(RadiusSumSq(m, n), CenterGapSq(m, n))

\* No two members share any point.
Apart ==
  \A m, n \in 1..Len(objects) : m < n => QLt(RadiusSumSq(m, n), CenterGapSq(m, n))

SameHitAndT(res) ==
  /\ res.hit_anything = scan.hit_anything
  /\ scan.hit_anything => res.rec.t = scan.rec.t

SameSurface(res) ==
  /\ res.owner = scan.owner
  /\ res.rec = scan.rec

SameResult(res) == SameHitAndT(res) /\ SameSurface(res)
SameUnlessTouching(res, apart) == SameHitAndT(res) /\ (apart => SameSurface(res))

\* Every member has a positive stored radius.
ProperSpheres == \A k \in 1..Len(objects) : QGt(objects[k].radius, Zero)

\* C1 as stated, read on spheres of positive radius: for non-overlapping
\* spheres the returned flag, the recorded t and the surface the record
\* belongs to are the same for every order of the member list.
C1_OrderIndependent_Original ==
  (Returned /\ NonOverlapping /\ ProperSpheres) =>
    \A f \in Orders : SameResult(ResultOf(f))

SameInEveryOrder(apart) == \A f \in Orders : SameUnlessTouching(ResultOf(f), apart)

\* C1 (amended): for every set of spheres the returned flag and the recorded
\* t are the same for every order of the member list; the surface the record
\* belongs to (and the whole record) is the same too when no two spheres
\* share a point.
C1_OrderIndependent == Returned => SameInEveryOrder(Apart)

\* Two spheres of positive radius that share no point are both hit, the
\* nearer one second in the list.
C1_TwoApartBothHit ==
  /\ Returned
  /\ Len(objects) = 2
  /\ Apart
  /\ QGt(objects[1].radius, Zero) /\ QGt(objects[2].radius, Zero)
  /\ Hitters = {1, 2}
  /\ scan.owner = objects[2]
  /\ objects[1] # objects[2]

\* ------------------------------------------------------------------------
\* The scatter that follows a hit
\* ------------------------------------------------------------------------
Scattered == pc = "scattered"
HitMat == scan.rec.mat
FuzzedReflection ==
  VAdd(unit_vector(reflect(r.dir, scan.rec.normal)), VScale(HitMat.fuzz, rnd))

\* C9: metal::scatter reports the ray as scattered exactly when the scattered
\* direction, the unit reflection plus fuzz times the random unit vector, has
\* a strictly positive dot product with the hit normal; a zero or negative
\* dot product, the zero vector included, is reported as absorbed.  Either
\* way the attenuation is the albedo.
C9_MetalScatter ==
  (Scattered /\ HitMat.kind = "metal") =>
    /\ scat.scattered = ray(scan.rec.p, FuzzedReflection)
    /\ scat.returned <=> QGt(dot(scat.scattered.dir, scan.rec.normal), Zero)
    /\ QLe(dot(scat.scattered.dir, scan.rec.normal), Zero) => ~scat.returned
    /\ scat.scattered.dir = vec3_zero => ~scat.returned
    /\ scat.attenuation = HitMat.albedo

\* The fuzz cancels the reflection: the scattered direction is the zero
\* vector and the ray is absorbed.
C9_ZeroDirectionAbsorbed ==
  /\ Scattered
  /\ HitMat.kind = "metal"
  /\ length_squared(scan.rec.normal) = One
  /\ scat.scattered.dir = vec3_zero
  /\ ~scat.returned
  /\ scat.attenuation = Gold

\* Every component of v has an absolute value below 1e-8.
AllBelow1e8(v) == \A k \in 1..3 : QLt(fabs(v[k]), <<1, 100000000>>)

\* C10: lambertian::scatter always reports the ray as scattered with the
\* albedo as attenuation; for a unit hit normal the scattered direction is
\* never near zero; the direction is the normal itself when every component
\* of normal + random_unit_vector is below 1e-8 in absolute value, and that
\* sum otherwise.
C10_LambertianScatter ==
  (Scattered /\ HitMat.kind = "lambertian") =>
    /\ scat.returned
    /\ scat.attenuation = HitMat.albedo
    /\ scat.scattered.orig = scan.rec.p
    /\ length_squared(scan.rec.normal) = One => ~AllBelow1e8(scat.scattered.dir)
    /\ scat.scattered.dir =
         IF AllBelow1e8(VAdd(scan.rec.normal, rnd)) THEN scan.rec.normal
         ELSE VAdd(scan.rec.normal, rnd)

\* The random unit vector is the opposite of the unit normal and the
\* direction falls back to the normal.
C10_FallbackToNormal ==
  /\ Scattered
  /\ HitMat.kind = "lambertian"
  /\ length_squared(scan.rec.normal) = One
  /\ VAdd(scan.rec.normal, rnd) = vec3_zero
  /\ scat.scattered.dir = scan.rec.normal
  /\ scat.returned

\* C11: for a dielectric of refraction index 1 the direction of the scattered
\* ray equals the unit incoming direction, whatever the hit record, the
\* incidence angle and the random draw.
C11_IndexOneNeverBends ==
  (Scattered /\ HitMat.kind = "dielectric" /\ HitMat.refraction_index = One) =>
    scat.scattered.dir = unit_vector(r.dir)

\* ------------------------------------------------------------------------
\* The integrator
\* ------------------------------------------------------------------------
Colored == pc = "colored"

\* The scene has not been tested since the camera ray was started.
SceneUntested == idx = 1 /\ scan = scan_begin(MainInterval, hit_record_new)

\* C12: with max_depth = 0 the integrator returns exactly black for every ray
\* and every scene: the depth check comes before the scene test, so neither a
\* material nor the background contributes.
C12_DepthZeroIsBlack ==
  (max_depth = 0 /\ pc \in {"enter", "scan", "returned", "scattered", "colored"}) =>
    /\ pc \in {"enter", "colored"}
    /\ SceneUntested
    /\ Colored => pixel_color = vec3_zero

\* Black was returned for a ray that a sphere of the scene would stop.
C12_BlackThoughSphereAhead ==
  /\ Colored
  /\ max_depth = 0
  /\ pixel_color = vec3_zero
  /\ \E k \in 1..Len(objects) : Alone(k).hit /\ QGt(objects[k].radius, Zero)

\* ------------------------------------------------------------------------
\* The image header and the render loop
\* ------------------------------------------------------------------------
HeaderWritten == rpc \in {"rows", "cols", "done"}

FlooredHeight ==
  IF QLt(QDiv(QInt(image_width), aspect_ratio), One) THEN 1
  ELSE CHOOSE h \in 1..image_width * 2 :
         /\ QLe(QInt(h), QDiv(QInt(image_width), aspect_ratio))
         /\ QLt(QDiv(QInt(image_width), aspect_ratio), QInt(h + 1))

HeaderFirst ==
  /\ Len(out) >= 3
  /\ out[1] = "P3"
  /\ out[2] = ToString(image_width) \o " " \o ToString(FlooredHeight)
  /\ out[3] = "255"
  /\ (image_width = 400 /\ aspect_ratio = <<16, 9>>) => out[2] = "400 225"

\* C13: the image height is max(1, floor(image_width / aspect_ratio)); the
\* header is the three lines "P3", "<image_width> <image_height>", "255",
\* written before any pixel line; for width 400 and ratio 16/9 the second
\* line is "400 225".
C13_HeightAndHeader ==
  /\ rpc # "start" => image_height = FlooredHeight
  /\ rpc \in {"start", "header"} => out = <<>>
  /\ HeaderWritten => HeaderFirst

\* The header of main's own image has been written.
C13_Header400x225 ==
  /\ HeaderWritten
  /\ image_width = 400
  /\ out = <<"P3", "400 225", "255">>

\* The height of a narrow image was raised to 1.
C13_HeightRaisedToOne ==
  /\ HeaderWritten
  /\ QLt(QDiv(QInt(image_width), aspect_ratio), One)
  /\ image_height = 1

\* The number of pixel lines on std::cout.
PixelLines == Len(out) - 3

\* The pixels the loop has completed at its current position.
PixelsDue ==
  IF rpc = "cols" THEN j * image_width + i
  ELSE IF rpc \in {"rows", "done"} THEN j * image_width
  ELSE 0

\* Pixel line n is the line of the pixel in row (n-1) div width and column
\* (n-1) mod width.
RasterOrder ==
  \A n \in 1..Len(shaded) :
    /\ shaded[n].row = (n - 1) \div image_width
    /\ shaded[n].col = (n - 1) % image_width
    /\ out[3 + n] = color_line(color_bytes(shaded[n].color, 0))

EveryPixelOnce ==
  HeaderWritten =>
    /\ PixelLines = Len(shaded)
    /\ PixelLines = PixelsDue
    /\ RasterOrder
    /\ rpc = "done" => PixelLines = image_width * image_height

\* The loop of an image the model renders has been reached.
RenderableStarted == IF HeaderWritten THEN Renderable ELSE FALSE

Done == rpc = "done"

\* C14: the render loop writes exactly image_width * image_height pixel
\* lines, line k (from 0) being the pixel of row k div image_width and column
\* k mod image_width, none skipped and none written twice, and then ends.
C14_RasterOrderThenDone ==
  /\ []EveryPixelOnce
  /\ RenderableStarted ~> Done

\* A two by two image has been rendered completely.
C14_TwoByTwoRendered ==
  /\ rpc = "done"
  /\ image_width = 2
  /\ image_height = 2
  /\ PixelLines = 4
  /\ shaded[3].row = 1 /\ shaded[3].col = 0

\* ------------------------------------------------------------------------
\* write_color
\* ------------------------------------------------------------------------
Written == pc = "written"

\* C15: write_color emits three integers, each in [0, 255], whatever color
\* it is given.
C15_BytesInRange == Written => \A k \in 1..3 : bytes[k] \in 0..255

\* b is int(256 * clamp(sqrt(x))) for a positive x and 0 otherwise, stated
\* through squares so that no root has to be exact: below the clamp's upper
\* end, b <= 256 * sqrt(x) < b + 1.
GammaQuantized(x, b) ==
  IF ~QGt(x, Zero) THEN b = 0
  ELSE IF QLe(QMul(intensity.max, intensity.max), x) THEN b = 255
  ELSE /\ b \in 0..255
       /\ QLe(QInt(b * b), QMul(QInt(65536), x))
       /\ QLt(QMul(QInt(65536), x), QInt((b + 1) * (b + 1)))

\* C16: every emitted component is quantized from the gamma-encoded (square
\* root for a positive value, 0 otherwise) linear component of the pixel.
C16_GammaBeforeQuantizing ==
  Written =>
    \A k \in 1..3 : IsFinite(pixel_color[k]) => GammaQuantized(pixel_color[k], bytes[k])

\* ------------------------------------------------------------------------
\* Independence of pixels
\* ------------------------------------------------------------------------
BothOrdersDone == evals.pass = 2 /\ evals.turn > 2

\* C17: the color computed for a pixel is the same whichever order the pixels
\* are evaluated in.
C17_SameColorInEitherOrder ==
  BothOrdersDone => \A k \in 1..2 : evals.colors[1][k] = evals.colors[2][k]

\* ------------------------------------------------------------------------
\* vec3 utilities
\* ------------------------------------------------------------------------
Normalized == call.op = "unit_vector"
Reflected == call.op = "reflect"

\* u has length 1 and is v scaled by a positive factor.
UnitAlong(u, v) ==
  /\ length(u) = One
  /\ QGt(length(v), Zero)
  /\ VScale(length(v), u) = v

\* C18: unit_vector of the zero vector is the zero vector (no division by
\* zero takes place: no component is infinite or NaN); unit_vector of a
\* nonzero vector has length 1 and the direction of its argument.
C18_UnitVector ==
  Normalized =>
    IF call.v = vec3_zero THEN call.result = vec3_zero
    ELSE UnitAlong(call.result, call.v)

\* unit_vector has been applied to the zero vector.
C18_ZeroVectorNormalized == Normalized /\ call.v = vec3_zero /\ call.result = vec3_zero

\* unit_vector has been applied to a vector off the axes.
C18_ObliqueVectorNormalized ==
  /\ Normalized
  /\ call.v = vec3(QInt(2), QInt(-1), QInt(2))
  /\ call.result = vec3(<<2, 3>>, <<-1, 3>>, <<2, 3>>)

\* The part of v at right angles to n.
Perpendicular(v, n) == VSub(v, VScale(dot(v, n), n))

\* C19: for a unit n, dot(reflect(v, n), n) = -dot(v, n), and the component
\* of v perpendicular to n is that of reflect(v, n).
C19_Reflect ==
  (Reflected /\ length_squared(call.n) = One) =>
    /\ dot(call.result, call.n) = QNeg(dot(call.v, call.n))
    /\ Perpendicular(call.result, call.n) = Perpendicular(call.v, call.n)

\* A vector has been reflected about a unit normal off the axes that it is
\* neither along nor at right angles to.
C19_ObliqueReflection ==
  /\ Reflected
  /\ length_squared(call.n) = One
  /\ call.n[1] # Zero /\ call.n[2] # Zero
  /\ dot(call.v, call.n) # Zero
  /\ Perpendicular(call.v, call.n) # vec3_zero
  /\ call.result # call.v

\* ------------------------------------------------------------------------
\* The bound closest_so_far during one scan
\* ------------------------------------------------------------------------
\* The bound is ray_t.max until a hit is accepted and the t of the recorded
\* hit from then on, and lies strictly above ray_t.min.
BoundTracksRecord ==
  /\ QGt(scan.closest_so_far, ray_t.min)
  /\ IF scan.hit_anything THEN scan.closest_so_far = scan.rec.t
     ELSE scan.closest_so_far = ray_t.max

\* One iteration of the loop: an accepted hit has a t strictly below the bound
\* and becomes the bound; otherwise the bound stays.
BoundShrinks(before, after) ==
  /\ QLe(after.closest_so_far, before.closest_so_far)
  /\ IF after.obj_hit
     THEN /\ QLt(after.temp_rec.t, before.closest_so_far)
          /\ QLt(after.closest_so_far, before.closest_so_far)
          /\ after.closest_so_far = after.temp_rec.t
          /\ after.hit_anything
     ELSE /\ after.closest_so_far = before.closest_so_far
          /\ after.hit_anything = before.hit_anything

ScanStep == pc = "scan" /\ pc' = "scan" /\ idx' = idx + 1

\* C20: during one scan closest_so_far starts at ray_t.max, never increases,
\* strictly decreases whenever a member's hit is accepted, stays strictly
\* above ray_t.min and equals the t of the recorded hit once a hit has been
\* accepted; a hit is accepted only with a t strictly below the bound.
C20_ShrinkingBound ==
  /\ [](pc \in {"scan", "returned"} => BoundTracksRecord)
  /\ [][ScanStep => BoundShrinks(scan, scan')]_vars

\* The second member's hit was accepted below the bound the first had set.
C20_BoundShrankTwice ==
  /\ Called
  /\ idx = 3
  /\ scan.obj_hit
  /\ Alone(1).hit
  /\ QLt(Alone(1).rec.t, ray_t.max)
  /\ QLt(scan.closest_so_far, Alone(1).rec.t)

\* ------------------------------------------------------------------------
\* A ray of zero direction
\* ------------------------------------------------------------------------
\* The member just asked was given a ray whose direction has length 0.
ZeroDirectionCall == Called /\ MemberQ.a = Zero

\* C21: for a ray of zero direction sphere::hit never evaluates a root
\* division by a = 0.
C21_ZeroDirectionGuarded == ZeroDirectionCall => ~sphere_hit_divides(Member, r)

\* ------------------------------------------------------------------------
\* Two members at exactly the same t
\* ------------------------------------------------------------------------
\* The members that, asked alone, report the t of the record kept.
AtKeptT == {k \in Hitters : Alone(k).rec.t = scan.rec.t}

\* The first of them in the list.
FirstAtKeptT == CHOOSE k \in AtKeptT : \A m \in AtKeptT : k <= m

\* The member just asked would alone report exactly the bound it was given.
TiedWithBound == Called /\ Alone(idx - 1).hit /\ Alone(idx - 1).rec.t = scan.obj_t.max

\* The record kept is the one the first of the tied members fills.
FirstKept(first) ==
  /\ scan.owner = objects[first]
  /\ scan.rec = Alone(first).rec

\* C22: when two members would report exactly the same t, the later one is
\* asked over (ray_t.min, t) and rejected, and the record kept is that of the
\* one that comes first in the list.
C22_FirstOfTieKept ==
  /\ TiedWithBound =>
       /\ scan.obj_t.min = ray_t.min
       /\ ~scan.obj_hit
       /\ scan.hit_anything
       /\ scan.rec.t = scan.obj_t.max
  /\ (Returned /\ Cardinality(AtKeptT) > 1) => FirstKept(FirstAtKeptT)

\* Two members are met at the same t with different records, and the first
\* one's record is kept.
C22_TieKeptFirst ==
  /\ Returned
  /\ Len(objects) = 2
  /\ AtKeptT = {1, 2}
  /\ Alone(1).rec # Alone(2).rec
  /\ scan.rec = Alone(1).rec

\* ------------------------------------------------------------------------
\* The caller's record
\* ------------------------------------------------------------------------
\* Every field of the record kept is the field the member k fills when asked
\* alone with a fresh record, k being a nearest member.
WhollyFrom(k) ==
  /\ scan.rec = Alone(k).rec
  /\ scan.owner = objects[k]
  /\ \A m \in Hitters : QLe(Alone(k).rec.t, Alone(m).rec.t)

\* What hittable_list::hit leaves in the caller's record.
RecordOfOneSurface ==
  Returned =>
    IF scan.hit_anything THEN \E k \in Hitters : WhollyFrom(k)
    ELSE scan.rec = hit_record_new

\* A member that reports no hit leaves the scratch record and the caller's
\* record as they were; one that reports a hit leaves the same record in both.
MissWritesNothing(before, after) ==
  IF after.obj_hit THEN after.rec = after.temp_rec
  ELSE after.temp_rec = before.temp_rec /\ after.rec = before.rec

\* C23: when hittable_list::hit returns true the caller's record is, field by
\* field, the record of the single accepted hit of a nearest member; when it
\* returns false the caller's record is unchanged; a member that reports no
\* hit writes nothing to the record it was given.
C23_RecordNeverMixed ==
  /\ []RecordOfOneSurface
  /\ [][ScanStep => MissWritesNothing(scan, scan')]_vars

\* The scratch record held the first member's hit when the second, nearer
\* member was accepted, and the record returned is the second member's alone.
C23_ScratchReused ==
  /\ Returned
  /\ Len(objects) = 2
  /\ Hitters = {1, 2}
  /\ Alone(1).rec.p # Alone(2).rec.p
  /\ Alone(1).rec.normal # Alone(2).rec.normal
  /\ QLt(Alone(2).rec.t, Alone(1).rec.t)
  /\ WhollyFrom(2)

\* Every member missed and the caller's record is as it was passed.
C23_MissLeavesRecord ==
  /\ Returned
  /\ Len(objects) = 2
  /\ ~scan.hit_anything
  /\ scan.rec = hit_record_new

====
